---- MODULE Spec2Model ----
(***************************************************************************)
(* A model of the diagram service: the description parser, the component   *)
(* classifier and the diagram code builder of AgentService                 *)
(* (app/services/agent_service.py) and of SimpleAgentService               *)
(* (app/services/agent_service_simple.py), and the chat turn handler with  *)
(* its in-memory conversation table.                                       *)
(*                                                                         *)
(* Text.  A Python string is modelled as a sequence of morphemes: each     *)
(* morpheme is a run of characters that the code never looks inside (a     *)
(* keyword, a delimiter, a blank).  Substring tests are contiguous         *)
(* subsequence tests, str.split cuts at occurrences of the delimiter       *)
(* sequence, str.strip removes blanks at both ends, str.lower and          *)
(* str.title map over the morphemes.  A text is a sequence of lines.       *)
(***************************************************************************)
EXTENDS Integers, Sequences, FiniteSets, TLC

(***************************************************************************)
(* Python string operations on morpheme sequences                          *)
(***************************************************************************)

\* str.lower() of one morpheme
LowerOf(tok) ==
    CASE tok = "Component"  -> "component"
      [] tok = "Connection" -> "connection"
      [] tok = "Web"        -> "web"
      [] tok = "Server"     -> "server"
      [] tok = "Database"   -> "database"
      [] tok = "DB"         -> "db"
      [] tok = "Load"       -> "load"
      [] tok = "Balancer"   -> "balancer"
      [] tok = "Storage"    -> "storage"
      [] tok = "Cache"      -> "cache"
      [] tok = "Order"      -> "order"
      [] tok = "Create"     -> "create"
      [] tok = "Diagram"    -> "diagram"
      [] tok = "Build"      -> "build"
      [] tok = "Show"       -> "show"
      [] tok = "Application"   -> "application"
      [] tok = "Microservices" -> "microservices"
      [] OTHER              -> tok

\* the morpheme with its first letter in upper case and the rest in lower case
CapOf(tok) ==
    CASE LowerOf(tok) = "component"  -> "Component"
      [] LowerOf(tok) = "connection" -> "Connection"
      [] LowerOf(tok) = "web"        -> "Web"
      [] LowerOf(tok) = "server"     -> "Server"
      [] LowerOf(tok) = "database"   -> "Database"
      [] LowerOf(tok) = "db"         -> "Db"
      [] LowerOf(tok) = "load"       -> "Load"
      [] LowerOf(tok) = "balancer"   -> "Balancer"
      [] LowerOf(tok) = "storage"    -> "Storage"
      [] LowerOf(tok) = "cache"      -> "Cache"
      [] LowerOf(tok) = "order"      -> "Order"
      [] LowerOf(tok) = "lb"         -> "Lb"
      [] LowerOf(tok) = "files"      -> "Files"
      [] LowerOf(tok) = "connects"   -> "Connects"
      [] LowerOf(tok) = "s"          -> "S"
      [] OTHER                       -> tok

\* the morphemes that hold no letter
NonLetters == {" ", "_", "(", ")", ":", "->", "-", "0", "1", "2", "3", "4"}

\* str.lower()
Lower(s) == [i \in 1..Len(s) |-> LowerOf(s[i])]

\* str.title(): a letter run starts after a morpheme without letters
Title(s) ==
    [i \in 1..Len(s) |->
        IF s[i] \in NonLetters THEN s[i]
        ELSE IF i = 1 \/ s[i - 1] \in NonLetters THEN CapOf(s[i])
        ELSE LowerOf(s[i])]

\* str.replace(a, b) for single morphemes
Replace(s, a, b) == [i \in 1..Len(s) |-> IF s[i] = a THEN b ELSE s[i]]

\* the places where pattern p occurs in s
Occurrences(s, p) ==
    {i \in 1..(Len(s) - Len(p) + 1) : SubSeq(s, i, i + Len(p) - 1) = p}

\* p in s
Contains(s, p) == Occurrences(s, p) # {}

Min(S) == CHOOSE x \in S : \A y \in S : x <= y

\* str.split(p): the pieces between the occurrences of p, left to right
RECURSIVE Split(_, _)
Split(s, p) ==
    IF ~Contains(s, p) THEN <<s>>
    ELSE LET i == Min(Occurrences(s, p))
         IN  <<SubSeq(s, 1, i - 1)>> \o Split(SubSeq(s, i + Len(p), Len(s)), p)

\* str.strip(): blanks removed at both ends
RECURSIVE LStrip(_)
LStrip(s) == IF s # <<>> /\ Head(s) = " " THEN LStrip(Tail(s)) ELSE s

RECURSIVE RStrip(_)
RStrip(s) ==
    IF s # <<>> /\ s[Len(s)] = " " THEN RStrip(SubSeq(s, 1, Len(s) - 1)) ELSE s

Strip(s) == LStrip(RStrip(s))

\* str.startswith('-'): the morphemes that begin with a dash
StartsWithDash(s) == s # <<>> /\ s[1] \in {"-", "->"}

(***************************************************************************)
(* SimpleAgentService: parser, classifier and builder                      *)
(***************************************************************************)

\* description.strip(): blank lines at both ends of the text go (the blanks
\* inside the first and the last line are removed again by line.strip())
RECURSIVE StripText(_)
StripText(lines) ==
    IF lines # <<>> /\ Strip(Head(lines)) = <<>> THEN StripText(Tail(lines))
    ELSE IF lines # <<>> /\ Strip(lines[Len(lines)]) = <<>>
         THEN StripText(SubSeq(lines, 1, Len(lines) - 1))
    ELSE lines

\* 'label': name_part.replace('_', ' ').title()
LabelOf(name_part) == Title(Replace(name_part, "_", " "))

\* one turn of the loop over the lines, line = line.strip()
Simple_parse_stripped(st, line) ==
    IF line = <<>> THEN st
    ELSE IF Contains(Lower(line), <<"component">>)
         THEN [st EXCEPT !.current_section = "components"]
    ELSE IF Contains(Lower(line), <<"connection">>)
         THEN [st EXCEPT !.current_section = "connections"]
    ELSE IF st.current_section = "components"
         THEN IF Contains(line, <<"(">>) /\ Contains(line, <<")">>)
              THEN LET name_part == Strip(Split(line, <<"(">>)[1])
                       type_part == Strip(Split(Split(line, <<"(">>)[2], <<")">>)[1])
                   IN  [st EXCEPT !.components = Append(@,
                           [name |-> name_part, type |-> type_part,
                            label |-> LabelOf(name_part)])]
              ELSE IF Contains(line, <<":">>)
              THEN LET parts == Split(line, <<":">>)
                       name_part == Strip(parts[1])
                       type_part == Strip(parts[2])
                   IN  [st EXCEPT !.components = Append(@,
                           [name |-> name_part, type |-> type_part,
                            label |-> LabelOf(name_part)])]
              ELSE st
    ELSE IF st.current_section = "connections"
         THEN IF Contains(line, <<"->">>)
              THEN LET parts == Split(line, <<"->">>)
                   IN  [st EXCEPT !.connections = Append(@,
                           [from |-> Strip(parts[1]), to |-> Strip(parts[2])])]
              ELSE st
    ELSE st

Simple_parse_line(st, raw) == Simple_parse_stripped(st, Strip(raw))

\* the loop over the lines: what was parsed before any default is applied
RECURSIVE Simple_parse_lines(_, _)
Simple_parse_lines(st, lines) ==
    IF lines = <<>> THEN st
    ELSE Simple_parse_lines(Simple_parse_line(st, Head(lines)), Tail(lines))

Simple_parsed(description) ==
    Simple_parse_lines(
        [current_section |-> "none", components |-> <<>>, connections |-> <<>>],
        StripText(description))

Simple_default_components ==
    << [name |-> <<"web", "_", "server">>, type |-> <<"Web", " ", "Server">>,
        label |-> <<"Web", " ", "Server">>],
       [name |-> <<"database">>, type |-> <<"Database">>,
        label |-> <<"Database">>] >>

\* the default connection, from the first to the second component
Simple_with_default_connection(parsed_components, parsed_connections) ==
    [components |-> parsed_components,
     connections |-> IF parsed_connections = <<>> /\ Len(parsed_components) >= 2
                     THEN << [from |-> parsed_components[1].name,
                              to |-> parsed_components[2].name] >>
                     ELSE parsed_connections]

\* the defaults applied to what the loop parsed
Simple_with_defaults(st) ==
    Simple_with_default_connection(
        IF st.components = <<>> THEN Simple_default_components ELSE st.components,
        st.connections)

\* SimpleAgentService._parse_structured_description
Simple_parse_structured_description(text) ==
    Simple_with_defaults(Simple_parsed(text))

\* the class a component type is mapped to
Simple_component_class(component_type) ==
    LET t == Lower(component_type) IN
    IF Contains(t, <<"web">>) \/ Contains(t, <<"server">>) THEN "Server"
    ELSE IF Contains(t, <<"database">>) \/ Contains(t, <<"db">>) THEN "PostgreSQL"
    ELSE IF Contains(t, <<"load">>) \/ Contains(t, <<"balancer">>) THEN "ELB"
    ELSE IF Contains(t, <<"storage">>) THEN "Storage"
    ELSE "Server"

\* the program as its node lines (name = Class('label')) and its edge lines
\* (from >> to)
Simple_code_lines(p) ==
    [template |-> FALSE,
     nodes |-> [i \in 1..Len(p.components) |->
                  [id |-> p.components[i].name,
                   class |-> Simple_component_class(p.components[i].type),
                   label |-> p.components[i].label]],
     edges |-> [k \in 1..Len(p.connections) |->
                  [from |-> p.connections[k].from,
                   to |-> p.connections[k].to]]]

\* SimpleAgentService._build_diagram_from_description
Simple_build_diagram_from_description(structured_description) ==
    Simple_code_lines(Simple_parse_structured_description(structured_description))

(***************************************************************************)
(* AgentService: parser, classifier and builder                            *)
(***************************************************************************)

\* one turn of the loop over the lines, line = line.strip()
Agent_parse_stripped(st, line) ==
    IF Contains(Lower(line), <<"component", "s", ":">>)
    THEN [st EXCEPT !.in_components = TRUE, !.in_connections = FALSE]
    ELSE IF Contains(Lower(line), <<"connection", "s", ":">>)
    THEN [st EXCEPT !.in_components = FALSE, !.in_connections = TRUE]
    ELSE IF st.in_components /\ line # <<>> /\ ~StartsWithDash(line)
         THEN LET component == IF Contains(line, <<":">>)
                               THEN Strip(Split(line, <<":">>)[2])
                               ELSE Strip(line)
              IN  IF component # <<>>
                  THEN [st EXCEPT !.components = Append(@, component)]
                  ELSE st
    ELSE IF st.in_connections /\ line # <<>> /\ ~StartsWithDash(line)
         THEN IF Contains(line, <<"->">>) \/ Contains(Lower(line), <<"connects">>)
              THEN [st EXCEPT !.connections = Append(@, Strip(line))]
              ELSE st
    ELSE st

Agent_parse_line(st, raw) == Agent_parse_stripped(st, Strip(raw))

\* the loop over the lines: what was parsed before any default is applied
RECURSIVE Agent_parse_lines(_, _)
Agent_parse_lines(st, lines) ==
    IF lines = <<>> THEN st
    ELSE Agent_parse_lines(Agent_parse_line(st, Head(lines)), Tail(lines))

Agent_parsed(description) ==
    Agent_parse_lines(
        [in_components |-> FALSE, in_connections |-> FALSE,
         components |-> <<>>, connections |-> <<>>],
        description)

Agent_default_components == << <<"Web", " ", "Server">>, <<"Database">> >>

Agent_default_connections ==
    << <<"Web", " ", "Server", " ", "->", " ", "Database">> >>

\* the defaults applied to what the loop parsed
Agent_with_defaults(st) ==
    [components |-> IF st.components = <<>> THEN Agent_default_components
                    ELSE st.components,
     connections |-> IF st.connections = <<>> THEN Agent_default_connections
                     ELSE st.connections]

\* AgentService._parse_structured_description
Agent_parse_structured_description(text) ==
    Agent_with_defaults(Agent_parsed(text))

\* the icon a component is mapped to
Agent_component_class(component) ==
    LET c == Lower(component) IN
    IF Contains(c, <<"load", " ", "balancer">>) \/ Contains(c, <<"alb">>) THEN "ALB"
    ELSE IF Contains(c, <<"database">>) \/ Contains(c, <<"db">>) THEN "RDS"
    ELSE "EC2"

DigitOf == <<"0", "1", "2", "3", "4", "5", "6", "7", "8", "9">>

\* var_name = f"component_{i}", i counted from 0
VarName(i) == <<"component", "_", DigitOf[i + 1]>>

Max(S) == CHOOSE x \in S : \A y \in S : x >= y

\* component_vars.get(name, default): the dict keeps the last index of a name
ComponentVar(components, name, default) ==
    LET at == {i \in 1..Len(components) : components[i] = name}
    IN  IF at = {} THEN default ELSE VarName(Max(at) - 1)

\* the connections that the builder writes an edge line for
ArrowConnections(connections) ==
    SelectSeq(connections, LAMBDA c : Contains(c, <<" ", "->", " ">>))

\* from_comp, to_comp = connection.split(" -> ") raises ValueError unless
\* the split gives exactly two pieces
UnpackFails(connections) ==
    \E k \in 1..Len(connections) :
        /\ Contains(connections[k], <<" ", "->", " ">>)
        /\ Len(Split(connections[k], <<" ", "->", " ">>)) # 2

\* the program returned from the except branch
Agent_fallback_diagram ==
    [template |-> TRUE,
     nodes |-> << [id |-> <<"web">>, class |-> "EC2",
                   label |-> <<"Web", " ", "Server">>],
                  [id |-> <<"db">>, class |-> "RDS", label |-> <<"Database">>] >>,
     edges |-> << [from |-> <<"web">>, to |-> <<"db">>] >>]

\* the edge line of one connection: from_var >> to_var
Agent_edge(names, parts) ==
    [from |-> ComponentVar(names, Strip(parts[1]), VarName(0)),
     to |-> ComponentVar(names, Strip(parts[2]), VarName(1))]

\* the node and edge lines written from a component list and the
\* connections that hold " -> "
Agent_code_lines(names, arrows) ==
    [template |-> FALSE,
     nodes |-> [i \in 1..Len(names) |->
                  [id |-> VarName(i - 1),
                   class |-> Agent_component_class(names[i]),
                   label |-> names[i]]],
     edges |-> [k \in 1..Len(arrows) |->
                  Agent_edge(names, Split(arrows[k], <<" ", "->", " ">>))]]

\* the try block and the except branch of the builder
Agent_build_from(p) ==
    IF UnpackFails(p.connections) THEN Agent_fallback_diagram
    ELSE Agent_code_lines(p.components, ArrowConnections(p.connections))

\* AgentService._build_diagram_from_description
Agent_build_diagram_from_description(structured_description) ==
    Agent_build_from(Agent_parse_structured_description(structured_description))

(***************************************************************************)
(* The compiler run on one structured description                          *)
(***************************************************************************)

VARIABLES
    impl,          \* the service under test: "agent" or "simple"
    description,   \* the structured description, a sequence of lines
    pc,            \* "input", "parsed", "built"
    components,    \* the components returned by the parser
    connections,   \* the connections returned by the parser
    diagram_code,  \* the program returned by the builder
    mode,           \* "mock" (settings.mock_llm), "live" (self.llm is set),
                    \* "unconfigured" (neither)
    conversations,  \* self.conversations: conversation id -> list of turns
    issued,         \* how many conversation ids uuid4 has produced
    started,        \* how many chat calls have begun
    calls,          \* per request slot: where the coroutine is suspended
    ret,            \* the call that returned in the last step, if any
    deleted,        \* the delete request answered in the last step, if any
    gen,            \* the generate_diagram call: where it is, what it returned
    files,          \* the files in temp_dir
    sweep           \* the cleanup of temp_dir done in the last step, if any

buildVars == <<description, pc, components, connections, diagram_code>>

chatVars == <<mode, conversations, issued, started, calls, ret, deleted>>

storeVars == <<gen, files, sweep>>

vars == <<impl, description, pc, components, connections, diagram_code,
          mode, conversations, issued, started, calls, ret, deleted,
          gen, files, sweep>>

\* the longest run of data lines in one section of a description
MaxData == 2

ComponentsHeader == <<"Component", "s", ":">>
ConnectionsHeader == <<"Connection", "s", ":">>

\* lines written under the Components header
ComponentLines ==
    { <<"web", "_", "server", " ", "(", "Web", " ", "Server", ")">>,
      <<"db", ":", " ", "Database">>,
      <<"Load", " ", "Balancer">>,
      <<"lb", " ", "(", "Load", " ", "Balancer", " ", "DB", ")">>,
      <<"files", " ", "(", "Storage", ")">>,
      <<"-", " ", "Cache">> }

\* lines written under the Connections header
ConnectionLines ==
    { <<"Load", " ", "Balancer", " ", "->", " ", "Database">>,
      <<"db", "->", "files">>,
      <<"db", " ", "->", " ", "lb", " ", "->", " ", "files">>,
      <<"lb", " ", "connects", " ", "files">> }

SeqsUpTo(S, n) == UNION {[1..k -> S] : k \in 0..n}

Descriptions ==
    { (IF hc THEN <<ComponentsHeader>> ELSE <<>>) \o cs \o
      (IF hk THEN <<ConnectionsHeader>> ELSE <<>>) \o ks :
        hc \in BOOLEAN, hk \in BOOLEAN,
        cs \in SeqsUpTo(ComponentLines, MaxData),
        ks \in SeqsUpTo(ConnectionLines, MaxData) }

NoProgram == [template |-> FALSE, nodes |-> <<>>, edges |-> <<>>]

InitBuild ==
    /\ impl \in {"agent", "simple"}
    /\ description \in Descriptions
    /\ pc = "input"
    /\ components = <<>>
    /\ connections = <<>>
    /\ diagram_code = NoProgram

parse_structured_description(text) ==
    IF impl = "simple" THEN Simple_parse_structured_description(text)
    ELSE Agent_parse_structured_description(text)

build_diagram_from_description(text) ==
    IF impl = "simple" THEN Simple_build_diagram_from_description(text)
    ELSE Agent_build_diagram_from_description(text)

Parse ==
    /\ pc = "input"
    /\ \E p \in {parse_structured_description(description)} :
           /\ components' = p.components
           /\ connections' = p.connections
    /\ pc' = "parsed"
    /\ UNCHANGED <<impl, description, diagram_code>>
    /\ UNCHANGED chatVars
    /\ UNCHANGED storeVars

Build ==
    /\ pc = "parsed"
    /\ diagram_code' = build_diagram_from_description(description)
    /\ pc' = "built"
    /\ UNCHANGED <<impl, description, components, connections>>
    /\ UNCHANGED chatVars
    /\ UNCHANGED storeVars



(***************************************************************************)
(* The conversation table and the chat turn handler                        *)
(***************************************************************************)


\* the number of chat calls in one run: when the collaborator answers at once
\* (mock mode, no collaborator) and when calls suspend on it (live mode)
MaxCalls == 4
MaxLiveCalls == 2

CallBudget == IF mode = "live" THEN MaxLiveCalls ELSE MaxCalls

\* the request slots: chat calls in flight at the same time
Slots == {1, 2}

\* the ids uuid4 produces, in order; "x0" is an id the service never produced
NewIds == <<"c1", "c2">>
ClientIds == {"x0"} \cup {NewIds[i] : i \in 1..Len(NewIds)}

\* the ids a client can send: those the service has handed out, and "x0"
KnownIds == {"x0"} \cup {NewIds[i] : i \in 1..issued}

\* Optional values: None, or a value
None == <<>>
Some(x) == <<x>>

\* the messages of the clients
Messages ==
    { <<"hello, how are you?">>,
      <<"please ", "Create", " a ", "diagram", " of a microservice system">>,
      <<"show", " me what you can do">> }

\* the replies of the text-generation collaborator in live mode
LiveReplies ==
    { <<"Here is an idea for your ", "Diagram", ".">>,
      <<"Tell me more about your system.">> }

\* the structured descriptions of the text-generation collaborator in live mode
LiveDescriptions ==
    { <<ComponentsHeader, <<"Load", " ", "Balancer">>, <<"db", ":", " ", "Database">>,
        ConnectionsHeader, <<"Load", " ", "Balancer", " ", "->", " ", "Database">>>> }

\* LLMService._mock_assistant_response
mock_assistant_response(message) ==
    LET message_lower == Lower(message) IN
    IF Contains(message_lower, <<"diagram">>)
    THEN <<"I'd be happy to help you create a ", "diagram", "! Could you tell me more?">>
    ELSE IF Contains(message_lower, <<"help">>)
    THEN <<"I can help you create various types of ", "diagram", "s", " including more.">>
    ELSE <<"Hello! I'm here to help you create ", "diagram", "s", ". What would you like?">>

\* LLMService._mock_diagram_code: Python text, no section header in it
mock_diagram_code(text) ==
    LET description_lower == Lower(text) IN
    IF Contains(description_lower, <<"web">>)
       /\ Contains(description_lower, <<"load", " ", "balancer">>)
    THEN << <<"with Diagram(\"Web Application Architecture\", show=False):">>,
            <<"alb = ALB(\"Application Load Balancer\")">> >>
    ELSE IF Contains(description_lower, <<"microservices">>)
    THEN << <<"with Diagram(\"Microservices Architecture\", show=False):">>,
            <<"api_gateway = APIGateway(\"API Gateway\")">> >>
    ELSE << <<"with Diagram(\"Custom Architecture\", show=False):">>,
            <<"database = RDS(\"Database\")">> >>

Turn(role, content, k) == [role |-> role, content |-> content, call |-> k]

\* self.conversations[conversation_id][-6:] (AgentService), [-5:] (Simple)
Agent_context_window == 6
Simple_context_window == 5
context_window == IF impl = "simple" THEN Simple_context_window
                  ELSE Agent_context_window

\* a faulty append: the record is cut to the turns of the context window
AppendTurnBounded(table, id, turn) ==
    [table EXCEPT ![id] = IF Len(@) < context_window THEN Append(@, turn)
                          ELSE Append(Tail(@), turn)]

\* a faulty append: every record is the same list object
AppendTurnAll(table, id, turn) == [i \in DOMAIN table |-> Append(table[i], turn)]

\* self.conversations[conversation_id].append(turn)
AppendTurn(table, id, turn) == [table EXCEPT ![id] = Append(@, turn)]

\* a faulty slice, [:6] for [-6:]: the oldest turns instead of the latest
oldest_messages(turns) ==
    IF Len(turns) > context_window THEN SubSeq(turns, 1, context_window)
    ELSE turns

recent_messages(turns) ==
    IF Len(turns) > context_window
    THEN SubSeq(turns, Len(turns) - context_window + 1, Len(turns))
    ELSE turns

\* _get_conversation_context: the text handed to the collaborator, as its
\* header line (SimpleAgentService) and its "role: content" lines
get_conversation_context(table, id) ==
    IF id \notin DOMAIN table THEN [header |-> None, lines |-> <<>>]
    ELSE LET recent == recent_messages(table[id]) IN
         [header |-> IF impl = "simple" THEN Some("Previous conversation:")
                     ELSE None,
          lines |-> [i \in 1..Len(recent) |->
                       [role |-> IF impl = "simple" THEN recent[i].role
                                 ELSE IF recent[i].role = "user" THEN "User"
                                 ELSE "Assistant",
                        content |-> recent[i].content]]]

\* a faulty decision: a keyword test on the message alone
has_diagram_by_message(message, assistant_response) ==
    \E word \in {"create", "generate", "make", "build", "diagram", "architecture"} :
        Contains(Lower(message), <<word>>)

\* has_diagram = "diagram" in assistant_response.lower() and any(word in
\* message.lower() for word in ["create", "make", "generate", "show"])
has_diagram(message, assistant_response) ==
    /\ Contains(Lower(assistant_response), <<"diagram">>)
    /\ \E word \in {"create", "make", "generate", "show"} :
           Contains(Lower(message), <<word>>)

ImageUrl ==
    IF impl = "simple" THEN <<"/diagrams/", "diagram_", "hex8", ".png">>
    ELSE <<"/images/", "diagram_", "hex8", ".png">>

\* a faulty result: the url is filled in before the renderer's answer is read
generate_diagram_with_url(structured_description, render_ok) ==
    [success |-> render_ok,
     image_url |-> Some(ImageUrl),
     diagram_code |-> Some(build_diagram_from_description(structured_description)),
     error |-> IF render_ok THEN None
               ELSE Some(<<"Failed to generate diagram image">>)]

\* generate_diagram after the structured description has arrived: build the
\* program, run the renderer (render_ok: whether create_diagram succeeded)
generate_diagram(structured_description, render_ok) ==
    [success |-> render_ok,
     image_url |-> IF render_ok THEN Some(ImageUrl) ELSE None,
     diagram_code |-> Some(build_diagram_from_description(structured_description)),
     error |-> IF render_ok THEN None
               ELSE Some(<<"Failed to generate diagram image">>)]

\* a faulty except branch: a fixed text for str(e), the code kept
generate_diagram_failed_generic(e) ==
    [success |-> FALSE, image_url |-> None,
     diagram_code |-> Some(NoProgram),
     error |-> Some(<<"Failed to generate diagram image">>)]

\* generate_diagram when the text-generation collaborator raised
generate_diagram_failed(e) ==
    [success |-> FALSE, image_url |-> None, diagram_code |-> None,
     error |-> Some(e)]

NoGeneration ==
    [success |-> FALSE, image_url |-> None, diagram_code |-> None, error |-> None]

\* the result dictionary of a call that did not raise: diagram_result is
\* read only when has_diagram was set
chat_result(id, assistant_response, wanted, diagram_result) ==
    [message |-> assistant_response,
     conversation_id |-> id,
     has_diagram |-> wanted,
     diagram_url |-> IF wanted /\ diagram_result.success
                     THEN diagram_result.image_url ELSE None,
     diagram_code |-> IF wanted /\ diagram_result.success
                      THEN diagram_result.diagram_code ELSE None]

\* the result dictionary of the except branch
error_result(id, e) ==
    [message |-> IF impl = "simple"
                 THEN <<"Sorry, I encountered an error: ", e>>
                 ELSE <<"Sorry, I'm having trouble right now. Please try again!">>,
     conversation_id |-> id,
     has_diagram |-> FALSE,
     diagram_url |-> None,
     diagram_code |-> None]

Idle == [pc |-> "idle", message |-> <<>>, conversation_id |-> "", call |-> 0,
         assistant_response |-> <<>>, context |-> [header |-> None, lines |-> <<>>],
         structured_description |-> <<>>]

\* the calls that are inside DiagramGenerator.create_diagram: the call is
\* synchronous, so the event loop runs nothing else until it returns
Rendering == {c \in Slots : calls[c].pc = "rendering"}

LoopFree == Rendering = {}

NoDelete == [op |-> "none", id |-> "", existed |-> FALSE,
             before |-> [i \in {} |-> <<>>], returned |-> None]

NoRet == [call |-> 0, message |-> <<>>, path |-> "none", raised |-> None,
          attempted |-> FALSE,
          generated |-> FALSE, result |-> error_result("", "")]

\* the call in slot c returns: the slot is free again
Return(c, k, message, path, attempted, generated, result) ==
    /\ calls' = [calls EXCEPT ![c] = Idle]
    /\ ret' = [call |-> k, message |-> message, path |-> path,
               raised |-> None,
               attempted |-> attempted, generated |-> generated,
               result |-> result]

\* the call in slot c returns from the except branch: exception is the
\* class of the exception caught and e its str(e)
ReturnError(c, k, id, message, exception, e) ==
    /\ calls' = [calls EXCEPT ![c] = Idle]
    /\ ret' = [call |-> k, message |-> message, path |-> "error",
               raised |-> Some(exception),
               attempted |-> FALSE, generated |-> FALSE,
               result |-> error_result(id, e)]

\* a faulty lookup: self.conversations.setdefault(conversation_id, [])
conversation_setdefault(table, given, id) ==
    IF id \in DOMAIN table THEN table
    ELSE [i \in DOMAIN table \cup {id} |-> IF i = id THEN <<>> ELSE table[i]]

\* if not conversation_id: self.conversations[conversation_id] = []
conversation_created(table, given, id) ==
    IF given = None
    THEN [i \in DOMAIN table \cup {id} |-> IF i = id THEN <<>> ELSE table[i]]
    ELSE table

\* the call returns after the diagram decision: diagram_result is the result
\* of generate_diagram when has_diagram was set
ReturnChat(c, k, id, message, reply, wanted, diagram_result) ==
    Return(c, k, message, "ok", wanted, wanted /\ diagram_result.success,
           chat_result(id, reply, wanted, diagram_result))

\* the handler from the arrival of the assistant's reply in mock mode to its
\* return or to its call of the renderer: nothing in it suspends
FinishMock(c, k, id, message, reply, table) ==
    /\ conversations' = AppendTurn(table, id, Turn("assistant", reply, k))
    /\ IF has_diagram(message, reply)
       THEN /\ calls' = [calls EXCEPT ![c] =
                   [pc |-> "rendering", message |-> message,
                    conversation_id |-> id, call |-> k,
                    assistant_response |-> reply,
                    context |-> get_conversation_context(table, id),
                    structured_description |-> mock_diagram_code(message)]]
            /\ ret' = NoRet
       ELSE ReturnChat(c, k, id, message, reply, FALSE, NoGeneration)

\* assistant_chat up to its first suspension: the conversation is created
\* or looked up, the user's turn is appended, the collaborator is called
ChatStart(c, message, given) ==
    /\ LoopFree
    /\ calls[c].pc = "idle"
    /\ \A d \in Slots : d < c => calls[d].pc # "idle"
    /\ started < CallBudget
    /\ given # None => given[1] \in KnownIds
    /\ given = None => issued < Len(NewIds)
    /\ LET k == started + 1
           id == IF given = None THEN NewIds[issued + 1] ELSE given[1]
           table == conversation_created(conversations, given, id)
       IN  /\ started' = k
           /\ issued' = IF given = None THEN issued + 1 ELSE issued
           /\ IF id \notin DOMAIN table
              THEN \* KeyError
                   /\ conversations' = conversations
                   /\ ReturnError(c, k, id, message, "KeyError", id)
              ELSE LET said == AppendTurn(table, id, Turn("user", message, k)) IN
                   CASE mode = "unconfigured" ->
                          \* ValueError("LLM not configured. ...")
                          /\ conversations' = said
                          /\ ReturnError(c, k, id, message, "ValueError",
                                         "LLM not configured.")
                     [] mode = "mock" ->
                          FinishMock(c, k, id, message,
                                     mock_assistant_response(message), said)
                     [] mode = "live" ->
                          /\ conversations' = said
                          /\ calls' = [calls EXCEPT ![c] =
                                 [pc |-> "await_reply", message |-> message,
                                  conversation_id |-> id, call |-> k,
                                  assistant_response |-> <<>>,
                                  context |-> get_conversation_context(said, id),
                                  structured_description |-> <<>>]]
                          /\ ret' = NoRet
    /\ UNCHANGED <<mode, impl>>
    /\ UNCHANGED buildVars
    /\ UNCHANGED storeVars
    /\ deleted' = NoDelete

\* a faulty append after the await:
\* self.conversations.setdefault(conversation_id, []).append(turn)
append_setdefault(table, id, turn) ==
    Some(AppendTurn(conversation_setdefault(table, Some(id), id), id, turn))

\* self.conversations[conversation_id].append(turn) after the await: the
\* table with the turn, or None for the KeyError of a missing record
append_assistant(table, id, turn) ==
    IF id \in DOMAIN table THEN Some(AppendTurn(table, id, turn)) ELSE None

\* the collaborator's reply arrives: the assistant's turn is appended and
\* the diagram decision is taken
ChatReply(c, reply) ==
    LET call == calls[c] IN
    /\ LoopFree
    /\ call.pc = "await_reply"
    /\ \E appended \in {append_assistant(conversations, call.conversation_id,
                                          Turn("assistant", reply, call.call))} :
       IF appended = None
       THEN \* KeyError: the conversation was deleted meanwhile
            /\ conversations' = conversations
            /\ ReturnError(c, call.call, call.conversation_id, call.message,
                           "KeyError", call.conversation_id)
       ELSE /\ conversations' = appended[1]
            /\ IF has_diagram(call.message, reply)
               THEN /\ calls' = [calls EXCEPT ![c].pc = "await_structured",
                                              ![c].assistant_response = reply]
                    /\ ret' = NoRet
               ELSE ReturnChat(c, call.call, call.conversation_id, call.message,
                               reply, FALSE, NoGeneration)
    /\ UNCHANGED <<mode, impl, issued, started>>
    /\ UNCHANGED buildVars
    /\ UNCHANGED storeVars
    /\ deleted' = NoDelete

\* the collaborator raises instead of replying
ChatReplyFails(c) ==
    LET call == calls[c] IN
    /\ LoopFree
    /\ call.pc = "await_reply"
    /\ ReturnError(c, call.call, call.conversation_id, call.message,
                   "Exception", "llm error")
    /\ UNCHANGED <<mode, impl, issued, started, conversations>>
    /\ UNCHANGED buildVars
    /\ UNCHANGED storeVars
    /\ deleted' = NoDelete

\* generate_diagram resumes with the structured description, builds the
\* program and calls the renderer
ChatGenerate(c, structured_description) ==
    LET call == calls[c]
    IN  /\ LoopFree
        /\ call.pc = "await_structured"
        /\ calls' = [calls EXCEPT ![c].pc = "rendering",
                                  ![c].structured_description = structured_description]
        /\ ret' = NoRet
        /\ UNCHANGED <<mode, impl, issued, started, conversations>>
        /\ UNCHANGED buildVars
        /\ UNCHANGED storeVars
        /\ deleted' = NoDelete

\* the renderer returns: generate_diagram and assistant_chat return
ChatRendered(c, render_ok) ==
    LET call == calls[c]
    IN  /\ call.pc = "rendering"
        /\ \E generation \in {generate_diagram(call.structured_description,
                                                 render_ok)} :
              ReturnChat(c, call.call, call.conversation_id, call.message,
                         call.assistant_response, TRUE, generation)
        /\ UNCHANGED <<mode, impl, issued, started, conversations>>
        /\ UNCHANGED buildVars
        /\ UNCHANGED storeVars
        /\ deleted' = NoDelete

\* generate_diagram catches the collaborator's exception and returns
ChatGenerateFails(c) ==
    LET call == calls[c]
    IN  /\ LoopFree
        /\ call.pc = "await_structured"
        /\ ReturnChat(c, call.call, call.conversation_id, call.message,
                      call.assistant_response, TRUE,
                      generate_diagram_failed("llm error"))
        /\ UNCHANGED <<mode, impl, issued, started, conversations>>
        /\ UNCHANGED buildVars
        /\ UNCHANGED storeVars
        /\ deleted' = NoDelete

\* a faulty delete: self.conversations.clear()
clear_conversations(table, id) ==
    IF id \in DOMAIN table THEN [i \in {} |-> <<>>] ELSE table

\* if conversation_id in self.conversations: del self.conversations[id]
del_conversation(table, id) ==
    IF id \in DOMAIN table
    THEN [i \in DOMAIN table \ {id} |-> table[i]]
    ELSE table

\* AgentService.cleanup_conversation: the method has no return statement
cleanup_conversation(id) ==
    /\ LoopFree
    /\ conversations' = del_conversation(conversations, id)
    /\ deleted' = [op |-> "cleanup_conversation", id |-> id,
                   existed |-> id \in DOMAIN conversations,
                   before |-> conversations, returned |-> None]
    /\ ret' = NoRet
    /\ UNCHANGED <<mode, impl, issued, started, calls>>
    /\ UNCHANGED buildVars
    /\ UNCHANGED storeVars

\* main.py delete_conversation, the DELETE /conversations/{id} endpoint: it
\* answers success and calls nothing
delete_conversation(id) ==
    /\ LoopFree
    /\ impl = "agent"
    /\ deleted' = [op |-> "delete_conversation", id |-> id,
                   existed |-> id \in DOMAIN conversations,
                   before |-> conversations,
                   returned |-> Some(<<"Conversation deleted successfully">>)]
    /\ ret' = NoRet
    /\ UNCHANGED <<mode, impl, issued, started, calls, conversations>>
    /\ UNCHANGED buildVars
    /\ UNCHANGED storeVars

(***************************************************************************)
(* The orchestrator call generate_diagram and the files of temp_dir        *)
(***************************************************************************)

\* the descriptions sent to generate_diagram
WebAppRequest ==
    <<"Create", " a ", "web", " ", "application", " with ", "load", " ",
      "balancer", " and ", "database">>

GenerateRequests ==
    { WebAppRequest,
      <<"Create", " a ", "microservices", " architecture">>,
      <<"A ", "Web", " ", "Application", " behind a ", "Load", " ", "Balancer">>,
      <<"Microservices", " for a ", "web", " ", "application", " with ",
        "load", " ", "balancer">>,
      <<"web", " app with ", "load", " ", "balancer">>,
      <<"hello">> }

\* str(e) of the exceptions caught in DiagramGenerator.create_diagram
RenderErrors == {<<"failed to execute dot">>, <<"No module named diagrams">>}

\* str(e) of the exceptions of LLMService.generate_diagram_code
NotConfigured ==
    <<"LLM not configured. Please set GOOGLE_API_KEY or enable MOCK_LLM.">>

LlmErrors == {<<"429 quota exceeded">>}

NoRender == [invoked |-> FALSE, success |-> FALSE, error |-> None,
             diagram_code |-> None]

\* a node line, its label as morphemes
Node(id, class, label) == [id |-> <<id>>, class |-> class, label |-> label]

Edge(from, to) == [from |-> <<from>>, to |-> <<to>>]

\* DiagramGenerator._web_app_template
web_app_template ==
    [template |-> TRUE,
     title |-> <<"Web Application Architecture">>,
     nodes |-> << Node("alb", "ALB", <<"Application", " ", "Load", " ", "Balancer">>),
                  Node("web1", "EC2", <<"Web", " ", "Server", " ", "1">>),
                  Node("web2", "EC2", <<"Web", " ", "Server", " ", "2">>),
                  Node("db", "RDS", <<"Database">>) >>,
     edges |-> << Edge("alb", "web1"), Edge("alb", "web2"),
                  Edge("web1", "db"), Edge("web2", "db") >>]

\* DiagramGenerator._microservices_template
microservices_template ==
    [template |-> TRUE,
     title |-> <<"Microservices Architecture">>,
     nodes |-> << Node("gateway", "APIGateway", <<"API", " ", "Gateway">>),
                  Node("service1", "EC2", <<"User", " ", "Service">>),
                  Node("service2", "EC2", <<"Order", " ", "Service">>),
                  Node("service3", "EC2", <<"Payment", " ", "Service">>),
                  Node("db1", "RDS", <<"User", " ", "Database">>),
                  Node("db2", "RDS", <<"Order", " ", "Database">>),
                  Node("db3", "RDS", <<"Payment", " ", "Database">>),
                  Node("queue", "SQS", <<"Message", " ", "Queue">>),
                  Node("monitoring", "Cloudwatch", <<"Monitoring">>) >>,
     edges |-> << Edge("gateway", "service1"), Edge("gateway", "service2"),
                  Edge("gateway", "service3"),
                  Edge("service1", "db1"), Edge("service2", "db2"),
                  Edge("service3", "db3"),
                  Edge("service1", "queue"), Edge("service2", "queue"),
                  Edge("service3", "queue"),
                  Edge("service1", "monitoring"), Edge("service2", "monitoring"),
                  Edge("service3", "monitoring") >>]

\* DiagramGenerator._generic_template: the title is description[:50], and
\* the descriptions of GenerateRequests that reach it are shorter
generic_template(text) ==
    [template |-> TRUE,
     title |-> text,
     nodes |-> << Node("alb", "ALB", <<"Load", " ", "Balancer">>),
                  Node("web", "EC2", <<"Web", " ", "Server">>),
                  Node("db", "RDS", <<"Database">>) >>,
     edges |-> << Edge("alb", "web"), Edge("web", "db") >>]

\* a faulty choice: the keywords of LLMService._mock_diagram_code
generate_diagram_code_by_web(text) ==
    LET description_lower == Lower(text) IN
    IF Contains(description_lower, <<"web">>)
       /\ Contains(description_lower, <<"load", " ", "balancer">>)
    THEN web_app_template
    ELSE IF Contains(description_lower, <<"microservices">>)
    THEN microservices_template
    ELSE generic_template(text)

\* DiagramGenerator._generate_diagram_code
DiagramGenerator_generate_diagram_code(text) ==
    LET description_lower == Lower(text) IN
    IF Contains(description_lower, <<"web", " ", "application">>)
       /\ Contains(description_lower, <<"load", " ", "balancer">>)
    THEN web_app_template
    ELSE IF Contains(description_lower, <<"microservices">>)
    THEN microservices_template
    ELSE generic_template(text)

\* DiagramGenerator.create_diagram: the code is chosen from the text
\* and run; render_error is the exception raised while it ran, if any
create_diagram(text, render_error) ==
    [invoked |-> TRUE, success |-> render_error = None, error |-> render_error,
     diagram_code |-> IF render_error = None
                      THEN Some(DiagramGenerator_generate_diagram_code(text))
                      ELSE None]

GenIdle == [pc |-> "idle", description |-> <<>>, raised |-> None,
            render |-> NoRender, result |-> NoGeneration]

\* generate_diagram from the arrival of the structured description to its
\* return: build, render, result
GenerateFinish(text, structured_description, result) ==
    gen' = [pc |-> "done", description |-> text, raised |-> None,
            render |-> result,
            result |-> generate_diagram(structured_description, result.success)]

\* a faulty except branch: the image is drawn from the raw description
GenerateFallBack(text, e) ==
    GenerateFinish(text, mock_diagram_code(text), create_diagram(text, None))

\* generate_diagram_code raised e: generate_diagram returns from its except
\* branch
GenerateRaise(text, e) ==
    gen' = [pc |-> "done", description |-> text, raised |-> Some(e),
            render |-> NoRender, result |-> generate_diagram_failed(e)]

\* generate_diagram up to its first suspension
GenerateStart(text) ==
    /\ gen.pc \in {"idle", "done"}
    /\ CASE mode = "mock" ->
              \E render_error \in {None} \cup {Some(m) : m \in RenderErrors} :
                  GenerateFinish(text, mock_diagram_code(text),
                                 create_diagram(text, render_error))
         [] mode = "unconfigured" -> GenerateRaise(text, NotConfigured)
         [] mode = "live" ->
              gen' = [pc |-> "await_structured", description |-> text,
                      raised |-> None, render |-> NoRender,
                      result |-> NoGeneration]
    /\ UNCHANGED <<impl, files, sweep>>
    /\ UNCHANGED buildVars
    /\ UNCHANGED chatVars

\* the collaborator's structured description arrives
GenerateDescribed(structured_description, render_error) ==
    /\ gen.pc = "await_structured"
    /\ GenerateFinish(gen.description, structured_description,
                      create_diagram(gen.description, render_error))
    /\ UNCHANGED <<impl, files, sweep>>
    /\ UNCHANGED buildVars
    /\ UNCHANGED chatVars

\* the collaborator raises
GenerateDescribeFails(e) ==
    /\ gen.pc = "await_structured"
    /\ GenerateRaise(gen.description, e)
    /\ UNCHANGED <<impl, files, sweep>>
    /\ UNCHANGED buildVars
    /\ UNCHANGED chatVars

\* file names in temp_dir, and the ages of a file in hours
FileNames ==
    { <<"diagram_", "1a2b3c4d", ".png">>,
      <<"diagram_", "5e6f7a8b", ".svg">>,
      <<"test", ".png">> }

FileAges == <<0, 24, 25>>

\* timedelta(hours=24)
retention_hours == 24

\* self.temp_dir.glob("diagram_*")
glob_diagram(dir) == {name \in DOMAIN dir : name[1] = "diagram_"}

\* file_path.stat().st_mtime < cutoff_time.timestamp()
older_than_cutoff(dir, name) == FileAges[dir[name]] > retention_hours

\* the directory without the files of a set
unlink(dir, names) == [name \in DOMAIN dir \ names |-> dir[name]]

NoSweep == [op |-> "none", before |-> [name \in {} |-> 1], logged |-> None,
            returned |-> None]

\* a file is written into temp_dir
FileWritten(name) ==
    /\ name \notin DOMAIN files
    /\ files' = [n \in DOMAIN files \cup {name} |->
                   IF n = name THEN 1 ELSE files[n]]
    /\ sweep' = NoSweep
    /\ UNCHANGED <<impl, gen>>
    /\ UNCHANGED buildVars
    /\ UNCHANGED chatVars

\* time passes for a file
FileGetsOlder(name) ==
    /\ name \in DOMAIN files
    /\ files[name] < Len(FileAges)
    /\ files' = [files EXCEPT ![name] = @ + 1]
    /\ sweep' = NoSweep
    /\ UNCHANGED <<impl, gen>>
    /\ UNCHANGED buildVars
    /\ UNCHANGED chatVars

\* AgentService.cleanup_temp_files: deleted_count is logged, not returned
cleanup_temp_files ==
    /\ \E old \in {{name \in glob_diagram(files) : older_than_cutoff(files, name)}} :
          /\ files' = unlink(files, old)
          /\ sweep' = [op |-> "cleanup_temp_files", before |-> files,
                       logged |-> Some(Cardinality(old)), returned |-> None]
    /\ UNCHANGED <<impl, gen>>
    /\ UNCHANGED buildVars
    /\ UNCHANGED chatVars

\* main.py cleanup_temp_files, the POST /cleanup endpoint: the sweep is left
\* to a background task and a fixed message is returned
cleanup_endpoint ==
    /\ impl = "agent"
    /\ sweep' = [op |-> "POST /cleanup", before |-> files, logged |-> None,
                 returned |-> Some(<<"Cleanup started in background">>)]
    /\ UNCHANGED <<impl, gen, files>>
    /\ UNCHANGED buildVars
    /\ UNCHANGED chatVars

\* DiagramGenerator.cleanup_temp_files
DiagramGenerator_cleanup_temp_files ==
    /\ files' = unlink(files, glob_diagram(files))
    /\ sweep' = [op |-> "DiagramGenerator.cleanup_temp_files",
                 before |-> files, logged |-> None, returned |-> None]
    /\ UNCHANGED <<impl, gen>>
    /\ UNCHANGED buildVars
    /\ UNCHANGED chatVars

InitStore ==
    /\ gen = GenIdle
    /\ files = [name \in {} |-> 1]
    /\ sweep = NoSweep

InitChat ==
    /\ impl \in {"agent", "simple"}
    /\ mode \in {"mock", "live", "unconfigured"}
    /\ conversations = [i \in {} |-> <<>>]
    /\ issued = 0
    /\ started = 0
    /\ calls = [c \in Slots |-> Idle]
    /\ ret = NoRet
    /\ deleted = NoDelete

Next ==
    \/ \E c \in Slots, message \in Messages,
          given \in {None} \cup {Some(id) : id \in ClientIds} :
          ChatStart(c, message, given)
    \/ \E c \in Slots, reply \in LiveReplies : ChatReply(c, reply)
    \/ \E c \in Slots : ChatReplyFails(c)
    \/ \E c \in Slots, text \in LiveDescriptions : ChatGenerate(c, text)
    \/ \E c \in Slots, render_ok \in BOOLEAN : ChatRendered(c, render_ok)
    \/ \E c \in Slots : ChatGenerateFails(c)
    \/ \E id \in ClientIds : cleanup_conversation(id)
    \/ \E id \in ClientIds : delete_conversation(id)

(***************************************************************************)
(* The two specifications                                                  *)
(***************************************************************************)

Init ==
    /\ InitChat
    /\ description = <<>>
    /\ pc = "input"
    /\ components = <<>>
    /\ connections = <<>>
    /\ diagram_code = NoProgram
    /\ InitStore

\* the chat turn handler and the conversation table under concurrent requests
Spec == Init /\ [][Next]_vars

InitCompiler ==
    /\ InitBuild
    /\ InitStore
    /\ mode = "mock"
    /\ conversations = [i \in {} |-> <<>>]
    /\ issued = 0
    /\ started = 0
    /\ calls = [c \in Slots |-> Idle]
    /\ ret = NoRet
    /\ deleted = NoDelete

NextCompiler == Parse \/ Build

\* the parser and the builder run on one structured description
SpecCompiler == InitCompiler /\ [][NextCompiler]_vars

InitOrchestrator ==
    /\ impl \in {"agent", "simple"}
    /\ mode \in {"mock", "live", "unconfigured"}
    /\ gen = GenIdle
    /\ files = [name \in {} |-> 1]
    /\ sweep = NoSweep
    /\ conversations = [i \in {} |-> <<>>]
    /\ issued = 0
    /\ started = 0
    /\ calls = [c \in Slots |-> Idle]
    /\ ret = NoRet
    /\ deleted = NoDelete
    /\ description = <<>>
    /\ pc = "input"
    /\ components = <<>>
    /\ connections = <<>>
    /\ diagram_code = NoProgram

NextOrchestrator ==
    \/ \E text \in GenerateRequests : GenerateStart(text)
    \/ \E text \in LiveDescriptions,
          render_error \in {None} \cup {Some(m) : m \in RenderErrors} :
          GenerateDescribed(text, render_error)
    \/ \E e \in LlmErrors : GenerateDescribeFails(e)
    \/ \E name \in FileNames : FileWritten(name)
    \/ \E name \in FileNames : FileGetsOlder(name)
    \/ cleanup_temp_files
    \/ cleanup_endpoint
    \/ DiagramGenerator_cleanup_temp_files

\* generate_diagram calls, and temp_dir with its cleanups
SpecOrchestrator == InitOrchestrator /\ [][NextOrchestrator]_vars

(***************************************************************************)
(* Properties of the parser, the classifier and the builder, checked under *)
(* SpecCompiler                                                            *)
(***************************************************************************)

\* the trimmed, non-empty data lines of one section of a text; a line that
\* holds "component" or "connection" switches the section and is no data
RECURSIVE SectionLines(_, _, _)
SectionLines(lines, section, wanted) ==
    IF lines = <<>> THEN <<>>
    ELSE LET line == Strip(Head(lines)) IN
         IF Contains(Lower(line), <<"component">>)
         THEN SectionLines(Tail(lines), "components", wanted)
         ELSE IF Contains(Lower(line), <<"connection">>)
         THEN SectionLines(Tail(lines), "connections", wanted)
         ELSE (IF section = wanted /\ line # <<>> THEN <<line>> ELSE <<>>)
              \o SectionLines(Tail(lines), section, wanted)

\* the component lines and the connection lines (those with an arrow) that a
\* text declares
DeclaredComponents(text) == SectionLines(text, "none", "components")

DeclaredConnections(text) ==
    SelectSeq(SectionLines(text, "none", "connections"),
              LAMBDA line : Contains(line, <<"->">>))

HasLine(text, line) == \E i \in 1..Len(text) : text[i] = line

ExplicitSections(text) ==
    HasLine(text, ComponentsHeader) /\ HasLine(text, ConnectionsHeader)

NoSection(text) ==
    ~HasLine(text, ComponentsHeader) /\ ~HasLine(text, ConnectionsHeader)

\* what the parser returned, read the same way for both services
ComponentName(i) ==
    IF impl = "simple" THEN components[i].name ELSE components[i]

ComponentLabel(i) ==
    IF impl = "simple" THEN components[i].label ELSE components[i]

ComponentHint(i) ==
    IF impl = "simple" THEN components[i].type ELSE components[i]

ConnectionFrom(k) ==
    IF impl = "simple" THEN connections[k].from
    ELSE Strip(Split(connections[k], <<"->">>)[1])

ConnectionTo(k) ==
    IF impl = "simple" THEN connections[k].to
    ELSE Strip(Split(connections[k], <<"->">>)[2])

\* what the loop over the lines collected, before any default
Parsed ==
    IF impl = "simple" THEN Simple_parsed(description)
    ELSE Agent_parsed(description)

\* C1: for a text with an explicit Components section and an explicit
\* Connections section that declare at least one component and one
\* connection, the parser returns one component per declared component line
\* and one connection per declared connection line, in input order, each
\* taken from its line
C1_ParseRecoversDeclared ==
    (/\ pc # "input"
     /\ ExplicitSections(description)
     /\ DeclaredComponents(description) # <<>>
     /\ DeclaredConnections(description) # <<>>)
    => /\ Len(components) = Len(DeclaredComponents(description))
       /\ \A i \in 1..Len(components) :
             Contains(DeclaredComponents(description)[i], ComponentName(i))
       /\ Len(connections) = Len(DeclaredConnections(description))
       /\ \A k \in 1..Len(connections) :
             /\ Contains(DeclaredConnections(description)[k], ConnectionFrom(k))
             /\ Contains(DeclaredConnections(description)[k], ConnectionTo(k))

\* C2: the parser never returns an empty component list; a text without a
\* section header yields the components labelled "Web Server" and "Database"
\* and one connection from the first to the second; and when no connection
\* was parsed but two or more components were, exactly one connection from
\* the first to the second parsed component is returned
C2_ParseDefaults ==
    pc # "input"
    => /\ components # <<>>
       /\ NoSection(description)
          => /\ Len(components) = 2
             /\ ComponentLabel(1) = <<"Web", " ", "Server">>
             /\ ComponentLabel(2) = <<"Database">>
             /\ Len(connections) = 1
             /\ ConnectionFrom(1) = ComponentName(1)
             /\ ConnectionTo(1) = ComponentName(2)
       /\ (Parsed.connections = <<>> /\ Len(Parsed.components) >= 2)
          => /\ Len(connections) = 1
             /\ ConnectionFrom(1) = ComponentName(1)
             /\ ConnectionTo(1) = ComponentName(2)

\* the category an icon class stands for
CategoryOf(class) ==
    CASE class \in {"ELB", "ALB"}        -> "LoadBalancer"
      [] class \in {"PostgreSQL", "RDS"} -> "Database"
      [] class = "Storage"               -> "Storage"
      [] OTHER                           -> "Compute"

\* the keyword groups in the order load/balancer > database/db > storage >
\* web/server > default
PriorityCategory(hint) ==
    LET h == Lower(hint) IN
    IF Contains(h, <<"load">>) \/ Contains(h, <<"balancer">>) THEN "LoadBalancer"
    ELSE IF Contains(h, <<"database">>) \/ Contains(h, <<"db">>) THEN "Database"
    ELSE IF Contains(h, <<"storage">>) THEN "Storage"
    ELSE "Compute"

\* C3: every node the builder writes from the parsed components has the
\* category that the priority load/balancer > database/db > storage >
\* web/server > default gives to the component's category hint
C3_ClassifyPriority ==
    (pc = "built" /\ ~diagram_code.template)
    => \A i \in 1..Len(diagram_code.nodes) :
          CategoryOf(diagram_code.nodes[i].class) = PriorityCategory(ComponentHint(i))

NodeIds == {diagram_code.nodes[i].id : i \in 1..Len(diagram_code.nodes)}

\* C4: every edge of the built program has both endpoints among the
\* identifiers of the program's nodes
C4_NoDanglingEdge ==
    pc = "built"
    => \A k \in 1..Len(diagram_code.edges) :
          /\ diagram_code.edges[k].from \in NodeIds
          /\ diagram_code.edges[k].to \in NodeIds

\* a text with both sections in which every line of the Connections section
\* is one arrow between two names
WellFormed(text) ==
    /\ ExplicitSections(text)
    /\ DeclaredComponents(text) # <<>>
    /\ LET lines == SectionLines(text, "none", "connections")
       IN  \A k \in 1..Len(lines) : Len(Split(lines[k], <<"->">>)) = 2

\* C5: for a well-formed text the built program is no fixed template and has
\* as many nodes as the parser returned components and as many edges as the
\* parser returned connections
C5_RoundTripCounts ==
    (pc = "built" /\ WellFormed(description))
    => /\ ~diagram_code.template
       /\ Len(diagram_code.nodes) = Len(components)
       /\ Len(diagram_code.edges) = Len(connections)

(***************************************************************************)
(* Properties of the conversation table and the chat turn handler, checked *)
(* under Spec                                                              *)
(***************************************************************************)

\* the last min(n, total) turns of a conversation, in insertion order
LastTurns(turns, n) ==
    LET m == IF Len(turns) < n THEN Len(turns) ELSE n
    IN  [i \in 1..m |-> turns[Len(turns) - m + i]]

\* the turns recent(id, n) is to return on a table, n the window of the service
RecentTurns(table, id) ==
    IF id \in DOMAIN table THEN LastTurns(table[id], context_window) ELSE <<>>

Speaker(label) == IF label \in {"user", "User"} THEN "user" ELSE "assistant"

\* the context text has one line per turn, in the order of the turns
RendersTurns(context, turns) ==
    /\ Len(context.lines) = Len(turns)
    /\ \A i \in 1..Len(turns) :
          /\ context.lines[i].content = turns[i].content
          /\ Speaker(context.lines[i].role) = turns[i].role

\* the context handed to the collaborator by a call that suspends on it
ContextOfSuspendedCall ==
    \A c \in Slots :
        (calls[c].pc = "idle" /\ calls'[c].pc = "await_reply")
        => RendersTurns(calls'[c].context,
                        RecentTurns(conversations', calls'[c].conversation_id))

\* C6: at every moment and for every id, the context of the conversation is
\* the last min(n, total) turns of its record in insertion order, n being
\* the window of the service (6 or 5), and it is empty for an id that is
\* unknown or was deleted; the context a call hands to the collaborator is
\* the one of the table at that moment
C6_RecentIsLastTurns ==
    /\ [](\A id \in ClientIds :
             RendersTurns(get_conversation_context(conversations, id),
                          RecentTurns(conversations, id)))
    /\ [][ContextOfSuspendedCall]_vars

\* C6 witness: a conversation of AgentService has more turns than the window
C6_LongConversation ==
    /\ impl = "agent"
    /\ \E id \in DOMAIN conversations : Len(conversations[id]) > context_window

\* C7: when a call returns through one of the three branches of the handler,
\* the record under the returned conversation id exists and ends with the
\* user's message followed by the returned reply
C7_RecordEndsWithTurn ==
    ret.path = "ok"
    => /\ ret.result.conversation_id \in DOMAIN conversations
       /\ LET turns == conversations[ret.result.conversation_id]
              n == Len(turns)
          IN  /\ n >= 2
              /\ turns[n - 1].role = "user"
              /\ turns[n - 1].content = ret.message
              /\ turns[n].role = "assistant"
              /\ turns[n].content = ret.result.message

\* C8: in every conversation each assistant turn directly follows the user
\* turn of the same call, and no call has two turns of the same role
C8_AppendsNotInterleaved ==
    \A id \in DOMAIN conversations :
        LET turns == conversations[id] IN
        /\ \A i \in 1..Len(turns) :
              turns[i].role = "assistant"
              => /\ i > 1
                 /\ turns[i - 1].role = "user"
                 /\ turns[i - 1].call = turns[i].call
        /\ \A i, j \in 1..Len(turns) :
              (turns[i].role = turns[j].role /\ turns[i].call = turns[j].call)
              => i = j

\* C9: a returned result has has_diagram set exactly when generation was
\* attempted in the call and succeeded, and then the locator and the code
\* are present; when generation was attempted and failed, has_diagram is
\* not set and both are absent
C9_HasDiagramIffGenerated ==
    ret.path # "none"
    => /\ ret.result.has_diagram <=> (ret.attempted /\ ret.generated)
       /\ ret.result.has_diagram
          => (ret.result.diagram_url # None /\ ret.result.diagram_code # None)
       /\ (ret.attempted /\ ~ret.generated)
          => /\ ~ret.result.has_diagram
             /\ ret.result.diagram_url = None
             /\ ret.result.diagram_code = None

HasWord(text, words) == \E word \in words : Contains(Lower(text), <<word>>)

\* C10 as stated: a call that returns through the handler's branches
\* attempted generation exactly when its message holds one of create,
\* generate, make, build, diagram, architecture
C10_IntentByMessageOnly ==
    ret.path = "ok"
    => (ret.attempted
        <=> HasWord(ret.message, {"create", "generate", "make", "build",
                                  "diagram", "architecture"}))

\* C10 amended: a call that returns through the handler's branches attempted
\* generation exactly when the assistant's reply holds "diagram" and the
\* message holds one of create, make, generate, show; a call that returns
\* through the except branch attempted none; the message "hello, how are
\* you?" gets a non-empty reply, no attempt and has_diagram not set
C10_IntentByReplyAndMessage ==
    /\ ret.path = "ok"
       => (ret.attempted
           <=> /\ HasWord(ret.result.message, {"diagram"})
               /\ HasWord(ret.message, {"create", "make", "generate", "show"}))
    /\ ret.path = "error" => ~ret.attempted
    /\ (ret.path # "none" /\ ret.message = <<"hello, how are you?">>)
       => /\ ~ret.attempted
          /\ ~ret.result.has_diagram
          /\ ret.result.message # <<>>

\* C10 witness: a message that asks to create a diagram, a reply of the
\* collaborator without the word, and no attempt
C10_CreateWithoutAttempt ==
    /\ ret.path = "ok"
    /\ HasWord(ret.message, {"create"})
    /\ ~HasWord(ret.result.message, {"diagram"})
    /\ ~ret.attempted

(***************************************************************************)
(* Properties of generate_diagram, checked under SpecOrchestrator          *)
(***************************************************************************)

\* C11: a result returned by generate_diagram has success set exactly when
\* it holds an image url
C11_SuccessIffLocator ==
    gen.pc = "done" => (gen.result.success <=> gen.result.image_url # None)

\* C11 witness: a returned result without success and without url that
\* holds the program
C11_FailureWithProgram ==
    /\ gen.pc = "done"
    /\ ~gen.result.success
    /\ gen.result.image_url = None
    /\ gen.result.diagram_code # None

C13_RenderErrorVerbatim ==
    (gen.pc = "done" /\ gen.render.invoked /\ ~gen.render.success)
    => /\ ~gen.result.success
       /\ gen.result.error = gen.render.error
       /\ gen.result.diagram_code # None

ProgramOf(result) == result.diagram_code[1]

NodesOfCategory(program, category) ==
    {i \in 1..Len(program.nodes) : CategoryOf(program.nodes[i].class) = category}

\* C14: in mock mode the web application request with a succeeding renderer
\* returns success, an image url and a program with a load-balancer node, a
\* compute node and a database node and exactly two edges, load balancer to
\* compute and compute to database
C14_MockWebApplication ==
    (/\ gen.pc = "done"
     /\ mode = "mock"
     /\ gen.description = WebAppRequest
     /\ gen.render.success)
    => /\ gen.result.success
       /\ gen.result.image_url # None
       /\ gen.result.diagram_code # None
       /\ LET program == ProgramOf(gen.result) IN
          \E lb \in NodesOfCategory(program, "LoadBalancer"),
             cp \in NodesOfCategory(program, "Compute"),
             db \in NodesOfCategory(program, "Database") :
             program.edges =
                << [from |-> program.nodes[lb].id, to |-> program.nodes[cp].id],
                   [from |-> program.nodes[cp].id, to |-> program.nodes[db].id] >>

\* C15: when no collaborator is configured, a returned result has success
\* not set and a non-empty error, and the renderer was not invoked in the
\* call
C15_UnconfiguredFailsWithoutRender ==
    (gen.pc = "done" /\ mode = "unconfigured")
    => /\ ~gen.result.success
       /\ gen.result.error # None
       /\ gen.result.error # Some(<<>>)
       /\ ~gen.render.invoked

\* C15 witness: a call returned with no collaborator configured
C15_UnconfiguredReturned ==
    /\ gen.pc = "done"
    /\ mode = "unconfigured"
    /\ gen.result.error = Some(NotConfigured)

(***************************************************************************)
(* Properties of the deletion of conversations and of the failures of      *)
(* assistant_chat, checked under Spec                                      *)
(***************************************************************************)

\* the table of before without the record of id, the other records as they
\* were
WithoutRecord(before, after, id) ==
    /\ DOMAIN after = DOMAIN before \ {id}
    /\ \A i \in DOMAIN after : after[i] = before[i]

\* C16 as stated: cleanup_conversation returns true and removes the record
\* when the id is present, returns false and leaves the table unchanged
\* when it is absent, and a second deletion of the id changes nothing
C16_DeleteReturnsExisted ==
    deleted.op = "cleanup_conversation"
    => /\ deleted.returned = Some(deleted.existed)
       /\ WithoutRecord(deleted.before, conversations, deleted.id)
       /\ ~deleted.existed => conversations = deleted.before
       /\ del_conversation(conversations, deleted.id) = conversations

\* C16 amended: cleanup_conversation returns nothing; on a present id it
\* removes that record and no other, on an absent id it leaves the table
\* unchanged, and a second deletion of the id changes nothing
C16_DeleteIdempotent ==
    deleted.op = "cleanup_conversation"
    => /\ deleted.returned = None
       /\ WithoutRecord(deleted.before, conversations, deleted.id)
       /\ ~deleted.existed => conversations = deleted.before
       /\ del_conversation(conversations, deleted.id) = conversations

\* C16 witness: a present record was deleted and another record is left
C16_DeletedOneOfTwo ==
    /\ deleted.op = "cleanup_conversation"
    /\ deleted.existed
    /\ \E i \in DOMAIN conversations : conversations[i] # <<>>

\* C17: once delete_conversation has answered success, the table holds no
\* record for the id and the recent turns of the id are empty
C17_AcknowledgedIsDeleted ==
    (deleted.op = "delete_conversation" /\ deleted.returned # None)
    => /\ deleted.id \notin DOMAIN conversations
       /\ get_conversation_context(conversations, deleted.id).lines = <<>>

\* C18: a call of assistant_chat in which a collaborator, the orchestrator
\* or the table failed returns a result with a non-empty message,
\* has_diagram not set and neither locator nor code
C18_FailureResult ==
    (ret.path = "error" \/ (ret.path = "ok" /\ ret.attempted /\ ~ret.generated))
    => /\ ret.result.message # <<>>
       /\ ~ret.result.has_diagram
       /\ ret.result.diagram_url = None
       /\ ret.result.diagram_code = None

(***************************************************************************)
(* Properties of the sweeps of temp_dir, checked under SpecOrchestrator    *)
(***************************************************************************)

\* the diagram files of a directory that are older than the retention window
OldArtifacts(dir) == {name \in glob_diagram(dir) : FileAges[dir[name]] > retention_hours}

\* C19: after a sweep by AgentService.cleanup_temp_files, every diagram file
\* older than 24 hours is gone, every diagram file not older than 24 hours
\* is still there, and the sweep returned the number of files it deleted
C19_SweepDeletesOldAndCounts ==
    sweep.op = "cleanup_temp_files"
    => /\ \A name \in OldArtifacts(sweep.before) : name \notin DOMAIN files
       /\ \A name \in glob_diagram(sweep.before) \ OldArtifacts(sweep.before) :
             name \in DOMAIN files
       /\ sweep.returned = Some(Cardinality(DOMAIN sweep.before \ DOMAIN files))

\* C20: after DiagramGenerator.cleanup_temp_files has returned, no file that
\* was in the directory before the call is still there
C20_DirectoryEmptied ==
    sweep.op = "DiagramGenerator.cleanup_temp_files"
    => \A name \in DOMAIN sweep.before : name \notin DOMAIN files

(***************************************************************************)
(* Properties of the templates of DiagramGenerator, checked under          *)
(* SpecOrchestrator                                                        *)
(***************************************************************************)

Mentions(text, phrase) == Contains(Lower(text), phrase)

\* the template the priority rule names for a description
TemplateFor(text) ==
    CASE Mentions(text, <<"web", " ", "application">>)
         /\ Mentions(text, <<"load", " ", "balancer">>) -> "web application"
      [] OTHER -> IF Mentions(text, <<"microservices">>) THEN "microservices"
                  ELSE "generic"

ClassesOf(program) == {program.nodes[i].class : i \in 1..Len(program.nodes)}

\* the code run by a call of create_diagram that succeeded is the template
\* of its description, the web application template holds an ALB node and
\* the microservices template an APIGateway node
RendersTemplateFor(render, text) ==
    \E code \in {render.diagram_code[1]} :
       /\ TemplateFor(text) = "web application"
          => (code = web_app_template /\ "ALB" \in ClassesOf(code))
       /\ TemplateFor(text) = "microservices"
          => (code = microservices_template /\ "APIGateway" \in ClassesOf(code))
       /\ TemplateFor(text) = "generic" => code = generic_template(text)

\* C21 as stated: create_diagram runs the web application template for a
\* description with "web application" and "load balancer", else the
\* microservices template for one with "microservices", else the generic
\* template, which has two nodes
C21_TemplateGenericTwoNodes ==
    (gen.pc = "done" /\ gen.render.success)
    => /\ RendersTemplateFor(gen.render, gen.description)
       /\ TemplateFor(gen.description) = "generic"
          => Len(gen.render.diagram_code[1].nodes) = 2

\* C21 amended: the same choice of template, and the generic template has
\* three nodes, a load balancer, a server and a database, and two edges
C21_TemplateByPriority ==
    (gen.pc = "done" /\ gen.render.success)
    => /\ RendersTemplateFor(gen.render, gen.description)
       /\ TemplateFor(gen.description) = "generic"
          => /\ Len(gen.render.diagram_code[1].nodes) = 3
             /\ ClassesOf(gen.render.diagram_code[1]) = {"ALB", "EC2", "RDS"}
             /\ Len(gen.render.diagram_code[1].edges) = 2

\* C21 witness: a description with the keywords of two templates was
\* rendered with the web application template
C21_BothKeywords ==
    /\ gen.pc = "done"
    /\ gen.render.success
    /\ Mentions(gen.description, <<"microservices">>)
    /\ gen.render.diagram_code = Some(web_app_template)

(***************************************************************************)
(* Further properties of the parser and the builder, checked under         *)
(* SpecCompiler                                                            *)
(***************************************************************************)

DeclaredNames == {ComponentName(i) : i \in 1..Len(components)}

\* C22: in a program built with one edge per connection, the edge of a
\* connection whose from name is no component starts at the first node, and
\* the edge of a connection whose to name is no component ends at the second
\* node, or at the first node when the program has one node
C22_MissingNameSubstituted ==
    (/\ pc = "built"
     /\ ~diagram_code.template
     /\ Len(diagram_code.edges) = Len(connections))
    => \A k \in 1..Len(connections) :
          /\ ConnectionFrom(k) \notin DeclaredNames
             => diagram_code.edges[k].from = diagram_code.nodes[1].id
          /\ ConnectionTo(k) \notin DeclaredNames
             => diagram_code.edges[k].to =
                   diagram_code.nodes[IF Len(diagram_code.nodes) >= 2
                                      THEN 2 ELSE 1].id

\* the component lines of a text that hold neither "(" and ")" nor ":"
PlainComponentLines(text) ==
    SelectSeq(DeclaredComponents(text),
              LAMBDA line : /\ ~(Contains(line, <<"(">>) /\ Contains(line, <<")">>))
                            /\ ~Contains(line, <<":">>))

\* C23: every line of the components section that holds neither "(" and ")"
\* nor ":" is returned as one component whose name is the whole trimmed line,
\* without a category hint
C23_PlainLineKept ==
    pc # "input"
    => \A n \in 1..Len(PlainComponentLines(description)) :
          \E i \in 1..Len(components) :
             /\ ComponentName(i) = PlainComponentLines(description)[n]
             /\ impl = "simple" => components[i].type = <<>>

\* the trimmed text before the first "->" of a line, and the trimmed text
\* after it
BeforeFirstArrow(line) ==
    Strip(SubSeq(line, 1, Min(Occurrences(line, <<"->">>)) - 1))

AfterFirstArrow(line) ==
    Strip(SubSeq(line, Min(Occurrences(line, <<"->">>)) + 1, Len(line)))

\* C24: for a text that declares connections, AgentService returns the
\* connection lines that hold "->" as they are, SimpleAgentService returns
\* for the k-th of them the trimmed text before the line's first "->" as
\* from and the whole trimmed text after it as to, and the builder does not
\* fall back to its fixed program
C24_SplitOnFirstArrow ==
    /\ (pc # "input" /\ DeclaredConnections(description) # <<>>)
       => IF impl = "simple"
          THEN /\ Len(connections) = Len(DeclaredConnections(description))
               /\ \A k \in 1..Len(connections) :
                     \E line \in {DeclaredConnections(description)[k]} :
                        /\ connections[k].from = BeforeFirstArrow(line)
                        /\ connections[k].to = AfterFirstArrow(line)
          ELSE SelectSeq(connections, LAMBDA c : Contains(c, <<"->">>))
                  = DeclaredConnections(description)
    /\ pc = "built" => ~diagram_code.template

(***************************************************************************)
(* The program returned and the program rendered, checked under            *)
(* SpecOrchestrator                                                        *)
(***************************************************************************)

SameGraph(a, b) == a.nodes = b.nodes /\ a.edges = b.edges

\* C25: when a call of generate_diagram returns after the renderer
\* succeeded, the program in the result has the nodes and the edges of the
\* program the renderer ran
C25_ReturnedIsRendered ==
    (gen.pc = "done" /\ gen.render.success)
    => /\ gen.result.diagram_code # None
       /\ SameGraph(gen.result.diagram_code[1], gen.render.diagram_code[1])

(***************************************************************************)
(* Properties of concurrent requests and of the conversation table,        *)
(* checked under Spec                                                      *)
(***************************************************************************)

\* the call is inside a call to the text-generation collaborator or to the
\* renderer
InExternalCall(c) == calls[c].pc \in {"await_reply", "await_structured", "rendering"}

\* the call in slot d is resumed from an await
ResumeOf(d) ==
    \/ \E reply \in LiveReplies : ChatReply(d, reply)
    \/ ChatReplyFails(d)
    \/ \E text \in LiveDescriptions : ChatGenerate(d, text)
    \/ ChatGenerateFails(d)

\* a step of the call in slot d
StepOf(d) ==
    \/ ResumeOf(d)
    \/ \E render_ok \in BOOLEAN : ChatRendered(d, render_ok)

\* C26: while a call is inside a call to an external collaborator, every
\* other call in flight can take a step: it is running the renderer itself
\* or it can be resumed from its await
C26_OthersNotStalled ==
    \A c, d \in Slots :
       (c # d /\ InExternalCall(c) /\ calls[d].pc # "idle")
       => calls[d].pc = "rendering" \/ ENABLED ResumeOf(d)

IsPrefix(s, t) == Len(s) <= Len(t) /\ SubSeq(t, 1, Len(s)) = s

\* C27: a step that is no cleanup_conversation keeps every conversation of
\* the table, and the turns a conversation had before the step are a prefix
\* of its turns after the step
C27_AppendOnly ==
    [][deleted'.op # "cleanup_conversation"
       => \A id \in DOMAIN conversations :
             /\ id \in DOMAIN conversations'
             /\ IsPrefix(conversations[id], conversations'[id])]_vars

\* C27 witness: a conversation that holds the turns of two calls
C27_TwoCallsAppended ==
    \E id \in DOMAIN conversations :
       /\ Len(conversations[id]) >= 4
       /\ conversations[id][1].call # conversations[id][4].call

\* the ids the service has generated so far
IssuedIds == {NewIds[i] : i \in 1..issued}

\* a call of assistant_chat with an id that is not in the table returns at
\* once from the except branch of the KeyError, with the caller's id and
\* has_diagram not set, AgentService with its fixed apology; the table is
\* as it was and the collaborator is not awaited
UnknownIdRefused(c, id) ==
    /\ conversations' = conversations
    /\ calls'[c].pc = "idle"
    /\ ret'.path = "error"
    /\ ret'.raised = Some("KeyError")
    /\ ret'.result.conversation_id = id
    /\ ~ret'.result.has_diagram
    /\ ret'.result.diagram_url = None
    /\ ret'.result.diagram_code = None
    /\ impl = "agent"
       => ret'.result.message =
             <<"Sorry, I'm having trouble right now. Please try again!">>

\* C28: every call of assistant_chat with an id that is not in the table is
\* refused in this way, every key of the table is an id the service
\* generated, and an id that is generated or given and not in the table
\* does not enter the table
C28_UnknownIdCreatesNoRecord ==
    /\ [](DOMAIN conversations \subseteq IssuedIds)
    /\ [][/\ \A c \in Slots, message \in Messages, id \in ClientIds :
               (id \notin DOMAIN conversations /\ ChatStart(c, message, Some(id)))
               => UnknownIdRefused(c, id)
          /\ \A id \in KnownIds :
               id \notin DOMAIN conversations => id \notin DOMAIN conversations']_vars

\* C28 witness: a call with the id of a deleted conversation has returned
\* from the except branch
C28_DeletedIdRefused ==
    /\ ret.path = "error"
    /\ ret.raised = Some("KeyError")
    /\ mode = "mock"
    /\ ret.call = started
    /\ ret.result.conversation_id \in IssuedIds
    /\ ret.result.conversation_id \notin DOMAIN conversations
    /\ \A c \in Slots : calls[c].pc = "idle"

\* C29: when the reply, or the failure, of the text-generation collaborator
\* arrives for a call whose conversation was deleted while it waited, the
\* call returns the error result with its id and has_diagram not set, and
\* the table stays as it is, without that id
C29_LateReplyAfterDelete ==
    [][\A c \in Slots :
          (/\ calls[c].pc = "await_reply"
           /\ calls[c].conversation_id \notin DOMAIN conversations
           /\ \/ \E reply \in LiveReplies : ChatReply(c, reply)
              \/ ChatReplyFails(c))
          => /\ calls'[c].pc = "idle"
             /\ ret'.path = "error"
             /\ ret'.call = calls[c].call
             /\ ret'.result.conversation_id = calls[c].conversation_id
             /\ ret'.result.message # <<>>
             /\ ~ret'.result.has_diagram
             /\ conversations' = conversations
             /\ calls[c].conversation_id \notin DOMAIN conversations']_vars

\* C29 witness: in live mode the first call, which created its
\* conversation, has returned from the KeyError of its late append, and the
\* conversation is not in the table
C29_ReturnedAfterDelete ==
    /\ mode = "live"
    /\ ret.call = 1
    /\ ret.path = "error"
    /\ ret.raised = Some("KeyError")
    /\ ret.result.conversation_id \in IssuedIds
    /\ ret.result.conversation_id \notin DOMAIN conversations

\* a step of a chat call on the conversation A, or a deletion of A
ActsOn(A) ==
    \/ \E c \in Slots, message \in Messages : ChatStart(c, message, Some(A))
    \/ /\ issued < Len(NewIds)
       /\ A = NewIds[issued + 1]
       /\ \E c \in Slots, message \in Messages : ChatStart(c, message, None)
    \/ \E c \in Slots : calls[c].conversation_id = A /\ StepOf(c)
    \/ cleanup_conversation(A)
    \/ delete_conversation(A)

\* C30: a step of a chat call on a conversation A, failing or not, and a
\* deletion of A leave every conversation with another id in the table with
\* the turns it had, and put no other id into the table
C30_OtherConversationsUnchanged ==
    [][\A A \in ClientIds :
          ActsOn(A)
          => \A B \in (DOMAIN conversations \cup DOMAIN conversations') \ {A} :
                /\ B \in DOMAIN conversations
                /\ B \in DOMAIN conversations'
                /\ conversations'[B] = conversations[B]]_vars

\* C30 witness: one conversation was deleted while a call on it was waiting,
\* and another conversation holds the turns of its own call only
C30_TwoConversations ==
    \E A, B \in IssuedIds :
       /\ A # B
       /\ deleted.op = "cleanup_conversation"
       /\ deleted.id = A
       /\ deleted.existed
       /\ \E c \in Slots : calls[c].pc # "idle" /\ calls[c].conversation_id = A
       /\ B \in DOMAIN conversations
       /\ conversations[B] # <<>>
       /\ \A i \in 1..Len(conversations[B]) :
             conversations[B][i].call = conversations[B][1].call

====
